---- MODULE Spec2Model ----
(***************************************************************************)
(* The ISO-8859-7 byte classifier of src/enc/iso_8859_7.c: a 256-entry     *)
(* table of flag bitfields and four accessors (char width, alphabetic,     *)
(* alphanumeric, uppercase).                                               *)
(*                                                                         *)
(* Two specifications are given.  Spec is a single caller that points at   *)
(* any char value and calls the accessors on it, each call one step; it    *)
(* covers all 256 bytes under both signednesses of C's char.  SpecMT is    *)
(* NumThreads callers whose calls are split into the loads the code makes  *)
(* (the byte, then the table entry), interleaved in every order.           *)
(***************************************************************************)
EXTENDS Integers, FiniteSets, Sequences, TLC

VARIABLES
  table,       \* the static array yp_encoding_iso_8859_7_table (not const in C)
  charSigned,  \* whether the build's plain char is signed (implementation-defined)
  c,           \* Spec: the char value *c the caller's pointer refers to
  res,         \* Spec: per accessor, the outcome of its call on the current *c
  pc,          \* SpecMT: per thread, position inside its call
  fn,          \* SpecMT: per thread, the accessor being called
  arg,         \* SpecMT: per thread, the char value *c passed in
  v,           \* SpecMT: per thread, the local `const unsigned char v`
  ret          \* SpecMT: per thread, the value returned

vars == << table, charSigned, c, res, pc, fn, arg, v, ret >>

seqVars == << c, res >>
mtVars == << pc, fn, arg, v, ret >>

----------------------------------------------------------------------------
(* Bounds *)

NumThreads == 2

Threads == 1..NumThreads

\* The bytes the threads of SpecMT query: a digit, an upper and a lower case
\* Latin letter, an upper case Greek letter and the last (undefined) byte.
SampleBytes == { \h39, \h41, \h61, \hC1, \hFF }

----------------------------------------------------------------------------
(* The flag bits.  yp_encoding.h, which defines the three macros, is not    *)
(* among the sources; the bit of each flag follows from the table and the  *)
(* documented classes: the digits (0b010) are alphanumeric only, the       *)
(* lowercase letters (0b011) alphabetic and alphanumeric but not uppercase.*)

YP_ENCODING_ALPHABETIC_BIT == 1

YP_ENCODING_ALPHANUMERIC_BIT == 2

YP_ENCODING_UPPERCASE_BIT == 4

----------------------------------------------------------------------------
(* The table *)

\* The initializer, one tuple per source row (0x, 1x, ... Fx).
TableRows == <<
  << \b000, \b000, \b000, \b000, \b000, \b000, \b000, \b000, \b000, \b000, \b000, \b000, \b000, \b000, \b000, \b000 >>,
  << \b000, \b000, \b000, \b000, \b000, \b000, \b000, \b000, \b000, \b000, \b000, \b000, \b000, \b000, \b000, \b000 >>,
  << \b000, \b000, \b000, \b000, \b000, \b000, \b000, \b000, \b000, \b000, \b000, \b000, \b000, \b000, \b000, \b000 >>,
  << \b010, \b010, \b010, \b010, \b010, \b010, \b010, \b010, \b010, \b010, \b000, \b000, \b000, \b000, \b000, \b000 >>,
  << \b000, \b111, \b111, \b111, \b111, \b111, \b111, \b111, \b111, \b111, \b111, \b111, \b111, \b111, \b111, \b111 >>,
  << \b111, \b111, \b111, \b111, \b111, \b111, \b111, \b111, \b111, \b111, \b111, \b000, \b000, \b000, \b000, \b000 >>,
  << \b000, \b011, \b011, \b011, \b011, \b011, \b011, \b011, \b011, \b011, \b011, \b011, \b011, \b011, \b011, \b011 >>,
  << \b011, \b011, \b011, \b011, \b011, \b011, \b011, \b011, \b011, \b011, \b011, \b000, \b000, \b000, \b000, \b000 >>,
  << \b000, \b000, \b000, \b000, \b000, \b000, \b000, \b000, \b000, \b000, \b000, \b000, \b000, \b000, \b000, \b000 >>,
  << \b000, \b000, \b000, \b000, \b000, \b000, \b000, \b000, \b000, \b000, \b000, \b000, \b000, \b000, \b000, \b000 >>,
  << \b000, \b000, \b000, \b000, \b000, \b000, \b000, \b000, \b000, \b000, \b000, \b000, \b000, \b000, \b000, \b000 >>,
  << \b000, \b000, \b000, \b000, \b000, \b000, \b111, \b000, \b111, \b111, \b111, \b000, \b111, \b000, \b111, \b111 >>,
  << \b011, \b111, \b111, \b111, \b111, \b111, \b111, \b111, \b111, \b111, \b111, \b111, \b111, \b111, \b111, \b111 >>,
  << \b111, \b111, \b000, \b111, \b111, \b111, \b111, \b111, \b111, \b111, \b111, \b111, \b011, \b011, \b011, \b011 >>,
  << \b011, \b011, \b011, \b011, \b011, \b011, \b011, \b011, \b011, \b011, \b011, \b011, \b011, \b011, \b011, \b011 >>,
  << \b011, \b011, \b011, \b011, \b011, \b011, \b011, \b011, \b011, \b011, \b011, \b011, \b011, \b011, \b011, \b000 >>
>>

\* The array a 16x16 initializer lays out: element i is row i / 16, column i % 16.
ArrayOf(rows) == [i \in 0..255 |-> rows[(i \div 16) + 1][(i % 16) + 1]]

\* Faulty tables: one entry of the initializer mistyped.
table_A1_alnum == [ArrayOf(TableRows) EXCEPT ![\hA1] = \b010]

table_40_letter == [ArrayOf(TableRows) EXCEPT ![\h40] = \b111]

table_D2_letter == [ArrayOf(TableRows) EXCEPT ![\hD2] = \b111]

table_B7_letter == [ArrayOf(TableRows) EXCEPT ![\hB7] = \b111]

yp_encoding_iso_8859_7_table == ArrayOf(TableRows)

----------------------------------------------------------------------------
(* C semantics used by the accessors *)

\* The values a plain char can hold in this build.
CharValues(signed) == IF signed THEN -128..127 ELSE 0..255

\* The char value a byte in memory reads as.
CharOfByte(signed, b) == IF signed /\ b > 127 THEN b - 256 ELSE b

\* Faulty load: the char used as the index without the conversion.
NoConversion(x) == x

\* `const unsigned char v = *c`: conversion of a char to unsigned char.
ToUChar(x) == x % 256

RECURSIVE BitAnd(_, _)
\* The & of two non-negative integers.
BitAnd(a, b) ==
  IF a = 0 \/ b = 0 THEN 0
  ELSE (a % 2) * (b % 2) + 2 * BitAnd(a \div 2, b \div 2)

\* The values reading tbl[i] can yield: the entry, or, outside the array
\* (undefined behaviour), whatever unsigned char happens to be there.
TableRead(tbl, i) == IF i \in DOMAIN tbl THEN {tbl[i]} ELSE 0..255

----------------------------------------------------------------------------
(* The accessors as functions of the table and the char value *c.  Each    *)
(* yields the set of outcomes the call can have: the value returned and    *)
(* the table indices it read.                                              *)

\* Faulty width: bytes with the high bit set taken for two-byte characters.
char_width_high_bit(tbl, x) ==
  { [called |-> TRUE, reads |-> {}, ret |-> IF ToUChar(x) > 127 THEN 2 ELSE 1] }

yp_encoding_iso_8859_7_char_width(tbl, x) ==
  { [called |-> TRUE, reads |-> {}, ret |-> 1] }

yp_encoding_iso_8859_7_alpha_char(tbl, x) ==
  LET idx == ToUChar(x) IN
  { [called |-> TRUE, reads |-> {idx},
     ret |-> IF BitAnd(e, YP_ENCODING_ALPHABETIC_BIT) # 0 THEN 1 ELSE 0] :
    e \in TableRead(tbl, idx) }

\* Faulty alnum: tests the uppercase bit.
alnum_char_wrong_bit(tbl, x) ==
  LET idx == ToUChar(x) IN
  { [called |-> TRUE, reads |-> {idx},
     ret |-> IF BitAnd(e, YP_ENCODING_UPPERCASE_BIT) # 0 THEN 1 ELSE 0] :
    e \in TableRead(tbl, idx) }

yp_encoding_iso_8859_7_alnum_char(tbl, x) ==
  LET idx == ToUChar(x) IN
  { [called |-> TRUE, reads |-> {idx},
     ret |-> IF BitAnd(e, YP_ENCODING_ALPHANUMERIC_BIT) # 0 THEN 1 ELSE 0] :
    e \in TableRead(tbl, idx) }

\* Faulty isupper: tests the alphanumeric bit.
isupper_char_wrong_bit(tbl, x) ==
  LET idx == ToUChar(x) IN
  { [called |-> TRUE, reads |-> {idx},
     ret |-> IF BitAnd(e, YP_ENCODING_ALPHANUMERIC_BIT) # 0 THEN TRUE ELSE FALSE] :
    e \in TableRead(tbl, idx) }

yp_encoding_iso_8859_7_isupper_char(tbl, x) ==
  LET idx == ToUChar(x) IN
  { [called |-> TRUE, reads |-> {idx},
     ret |-> IF BitAnd(e, YP_ENCODING_UPPERCASE_BIT) # 0 THEN TRUE ELSE FALSE] :
    e \in TableRead(tbl, idx) }

----------------------------------------------------------------------------
(* Spec: one caller, each call one step *)

Accessors == {"char_width", "alpha_char", "alnum_char", "isupper_char"}

NotCalled == [called |-> FALSE]

NoResults == [f \in Accessors |-> NotCalled]

Idle == [t \in Threads |-> "idle"]

NoThreadData == [t \in Threads |-> "none"]

Init ==
  /\ table = yp_encoding_iso_8859_7_table
  /\ charSigned \in BOOLEAN
  /\ c \in CharValues(charSigned)
  /\ res = NoResults
  /\ pc = Idle
  /\ fn = NoThreadData
  /\ arg = NoThreadData
  /\ v = NoThreadData
  /\ ret = NoThreadData

\* The caller moves its pointer to another char; the results on the old one
\* no longer describe *c.
Point(x) ==
  /\ x # c
  /\ c' = x
  /\ res' = NoResults
  /\ UNCHANGED << table, charSigned, mtVars >>

CharWidth ==
  /\ \E r \in yp_encoding_iso_8859_7_char_width(table, c) :
       res' = [res EXCEPT !["char_width"] = r]
  /\ UNCHANGED << table, charSigned, c, mtVars >>

\* Faulty accessor: remembers its answer in the entry it read.
AlphaCharCaching ==
  /\ \E r \in yp_encoding_iso_8859_7_alpha_char(table, c) :
       /\ res' = [res EXCEPT !["alpha_char"] = r]
       /\ table' = [i \in DOMAIN table |-> IF i \in r.reads THEN r.ret ELSE table[i]]
  /\ UNCHANGED << charSigned, c, mtVars >>

AlphaChar ==
  /\ \E r \in yp_encoding_iso_8859_7_alpha_char(table, c) :
       res' = [res EXCEPT !["alpha_char"] = r]
  /\ UNCHANGED << table, charSigned, c, mtVars >>

AlnumChar ==
  /\ \E r \in yp_encoding_iso_8859_7_alnum_char(table, c) :
       res' = [res EXCEPT !["alnum_char"] = r]
  /\ UNCHANGED << table, charSigned, c, mtVars >>

IsupperChar ==
  /\ \E r \in yp_encoding_iso_8859_7_isupper_char(table, c) :
       res' = [res EXCEPT !["isupper_char"] = r]
  /\ UNCHANGED << table, charSigned, c, mtVars >>

Next ==
  \/ \E x \in CharValues(charSigned) : Point(x)
  \/ CharWidth
  \/ AlphaChar
  \/ AlnumChar
  \/ IsupperChar

Spec == Init /\ [][Next]_vars

----------------------------------------------------------------------------
(* SpecMT: NumThreads callers, no locks; a call is entered, loads its byte *)
(* into the local v, loads the table entry and returns.                    *)

ThreadChars == { CharOfByte(charSigned, b) : b \in SampleBytes }

Predicates == {"alpha_char", "alnum_char", "isupper_char"}

\* The flag an accessor tests.
BitOf(f) ==
  CASE f = "alpha_char" -> YP_ENCODING_ALPHABETIC_BIT
    [] f = "alnum_char" -> YP_ENCODING_ALPHANUMERIC_BIT
    [] f = "isupper_char" -> YP_ENCODING_UPPERCASE_BIT

\* The value returned for a set or clear flag: size_t 1/0, or bool for isupper.
Returned(f, set) == IF f = "isupper_char" THEN set ELSE IF set THEN 1 ELSE 0

InitMT ==
  /\ table = yp_encoding_iso_8859_7_table
  /\ charSigned \in BOOLEAN
  /\ c = 0
  /\ res = NoResults
  /\ pc = Idle
  /\ fn = NoThreadData
  /\ arg = NoThreadData
  /\ v = NoThreadData
  /\ ret = NoThreadData

Call(t, f, x) ==
  /\ pc[t] = "idle"
  /\ pc' = [pc EXCEPT ![t] = "entry"]
  /\ fn' = [fn EXCEPT ![t] = f]
  /\ arg' = [arg EXCEPT ![t] = x]
  /\ UNCHANGED << table, charSigned, seqVars, v, ret >>

\* yp_encoding_iso_8859_7_char_width: return 1.
WidthBody(t) ==
  /\ pc[t] = "entry"
  /\ fn[t] = "char_width"
  /\ ret' = [ret EXCEPT ![t] = 1]
  /\ pc' = [pc EXCEPT ![t] = "done"]
  /\ UNCHANGED << table, charSigned, seqVars, fn, arg, v >>

\* Faulty load: v declared static, so one v serves every thread.
LoadByteStatic(t) ==
  /\ pc[t] = "entry"
  /\ fn[t] \in Predicates
  /\ v' = [u \in Threads |-> ToUChar(arg[t])]
  /\ pc' = [pc EXCEPT ![t] = "lookup"]
  /\ UNCHANGED << table, charSigned, seqVars, fn, arg, ret >>

\* const unsigned char v = *c;
LoadByte(t) ==
  /\ pc[t] = "entry"
  /\ fn[t] \in Predicates
  /\ v' = [v EXCEPT ![t] = ToUChar(arg[t])]
  /\ pc' = [pc EXCEPT ![t] = "lookup"]
  /\ UNCHANGED << table, charSigned, seqVars, fn, arg, ret >>

\* return (yp_encoding_iso_8859_7_table[v] & BIT) ? 1 : 0;
Lookup(t) ==
  /\ pc[t] = "lookup"
  /\ \E e \in TableRead(table, v[t]) :
       ret' = [ret EXCEPT ![t] = Returned(fn[t], BitAnd(e, BitOf(fn[t])) # 0)]
  /\ pc' = [pc EXCEPT ![t] = "done"]
  /\ UNCHANGED << table, charSigned, seqVars, fn, arg, v >>

\* The caller takes the value; the call's frame is gone.
Return(t) ==
  /\ pc[t] = "done"
  /\ pc' = [pc EXCEPT ![t] = "idle"]
  /\ fn' = [fn EXCEPT ![t] = "none"]
  /\ arg' = [arg EXCEPT ![t] = "none"]
  /\ v' = [v EXCEPT ![t] = "none"]
  /\ ret' = [ret EXCEPT ![t] = "none"]
  /\ UNCHANGED << table, charSigned, seqVars >>

NextMT ==
  \E t \in Threads :
    \/ \E f \in Accessors, x \in ThreadChars : Call(t, f, x)
    \/ WidthBody(t)
    \/ LoadByte(t)
    \/ Lookup(t)
    \/ Return(t)

SpecMT == InitMT /\ [][NextMT]_vars

----------------------------------------------------------------------------
(* Vocabulary of the properties *)

\* The unsigned value (0..255) of the byte the caller points at.
Byte == IF c < 0 THEN c + 256 ELSE c

Called(f) == res[f].called

\* The accessor was called on the current byte and answered true (non-zero).
Yes(f) == Called(f) /\ (IF f = "isupper_char" THEN res[f].ret = TRUE ELSE res[f].ret # 0)

\* The accessor was called on the current byte and answered false (zero).
No(f) == Called(f) /\ (IF f = "isupper_char" THEN res[f].ret = FALSE ELSE res[f].ret = 0)

AllCalled == \A f \in Predicates : Called(f)

\* The outcomes of accessor f on char value x with table tbl.
Outcomes(f, tbl, x) ==
  CASE f = "char_width" -> yp_encoding_iso_8859_7_char_width(tbl, x)
    [] f = "alpha_char" -> yp_encoding_iso_8859_7_alpha_char(tbl, x)
    [] f = "alnum_char" -> yp_encoding_iso_8859_7_alnum_char(tbl, x)
    [] f = "isupper_char" -> yp_encoding_iso_8859_7_isupper_char(tbl, x)

\* Accessor f answers true on byte b, by the table as it stands.
AnswersYes(f, b) ==
  \A r \in Outcomes(f, table, CharOfByte(charSigned, b)) :
    IF f = "isupper_char" THEN r.ret = TRUE ELSE r.ret # 0

Digits == \h30..\h39

UpperLatin == \h41..\h5A

LowerLatin == \h61..\h7A

AccentedCapitals == { \hB6, \hB8, \hB9, \hBA, \hBC, \hBE, \hBF }

UpperGreek == (\hC1..\hDB) \ { \hD2 }

LowerGreek == { \hC0 } \cup (\hDC..\hFE)

----------------------------------------------------------------------------
(* C1 *)

\* C1 as stated: 0xA1 is alphanumeric without being alphabetic, and so is at
\* least one byte of 0xB0..0xBF.
C1_AlnumWithoutAlphaAtA1 ==
  (Byte = \hA1 /\ Called("alnum_char") /\ Called("alpha_char")) =>
    /\ Yes("alnum_char") /\ No("alpha_char")
    /\ \E b \in \hB0..\hBF : AnswersYes("alnum_char", b) /\ ~AnswersYes("alpha_char", b)

\* C1 (amended): no byte at 0xA1 or in 0xB0..0xBF is alphanumeric without
\* being alphabetic: on 0xA1 is_alphanumeric and is_alphabetic are both false,
\* and on every byte of 0xB0..0xBF the two give the same answer.
C1_NoAlnumWithoutAlpha ==
  /\ (Byte = \hA1 /\ Called("alnum_char")) => No("alnum_char")
  /\ (Byte = \hA1 /\ Called("alpha_char")) => No("alpha_char")
  /\ (Byte \in \hB0..\hBF /\ Called("alnum_char") /\ Called("alpha_char")) =>
       (Yes("alnum_char") <=> Yes("alpha_char"))

C1_Witness == Byte = \hA1 /\ No("alnum_char") /\ No("alpha_char")

----------------------------------------------------------------------------
(* C2 *)

\* C2: is_alphabetic(b) implies is_alphanumeric(b) for every byte b, and no
\* table entry has the ALPHABETIC flag without the ALPHANUMERIC flag.
C2_AlphaImpliesAlnum ==
  /\ Yes("alpha_char") /\ Called("alnum_char") => Yes("alnum_char")
  /\ \A i \in DOMAIN table :
       BitAnd(table[i], YP_ENCODING_ALPHABETIC_BIT) # 0 =>
         BitAnd(table[i], YP_ENCODING_ALPHANUMERIC_BIT) # 0

C2_Witness == Byte = \h61 /\ Yes("alpha_char") /\ Yes("alnum_char")

----------------------------------------------------------------------------
(* C3 *)

\* C3: on 0x00..0x7F, is_alphabetic is true exactly on the Latin letters,
\* is_alphanumeric exactly on the digits and Latin letters, and is_uppercase
\* exactly on 0x41..0x5A.
C3_AsciiHalf ==
  Byte \in 0..\h7F =>
    /\ Called("alpha_char") =>
         (Yes("alpha_char") <=> Byte \in UpperLatin \cup LowerLatin)
    /\ Called("alnum_char") =>
         (Yes("alnum_char") <=> Byte \in Digits \cup UpperLatin \cup LowerLatin)
    /\ Called("isupper_char") =>
         (Yes("isupper_char") <=> Byte \in UpperLatin)

C3_Witness ==
  Byte = \h39 /\ No("alpha_char") /\ Yes("alnum_char") /\ No("isupper_char")

----------------------------------------------------------------------------
(* C4 *)

\* C4: every byte of 0xC1..0xDB but 0xD2 is alphabetic, alphanumeric and
\* uppercase; 0xC0 and 0xDC..0xFE are alphabetic and alphanumeric but not
\* uppercase; 0xD2 and 0xFF are none of the three.
C4_GreekLetters ==
  /\ Byte \in UpperGreek => \A f \in Predicates : Called(f) => Yes(f)
  /\ Byte \in LowerGreek =>
       /\ Called("alpha_char") => Yes("alpha_char")
       /\ Called("alnum_char") => Yes("alnum_char")
       /\ Called("isupper_char") => No("isupper_char")
  /\ Byte \in { \hD2, \hFF } => \A f \in Predicates : Called(f) => No(f)

C4_Witness ==
  Byte = \hC1 /\ Yes("alpha_char") /\ Yes("alnum_char") /\ Yes("isupper_char")

----------------------------------------------------------------------------
(* C5 *)

\* C5: on 0x80..0xBF all three predicates are false, except on the accented
\* capitals 0xB6, 0xB8, 0xB9, 0xBA, 0xBC, 0xBE, 0xBF, where all three are true.
C5_UpperControlAndSymbols ==
  Byte \in \h80..\hBF =>
    \A f \in Predicates :
      Called(f) => IF Byte \in AccentedCapitals THEN Yes(f) ELSE No(f)

C5_Witness ==
  Byte = \h80 /\ No("alpha_char") /\ No("alnum_char") /\ No("isupper_char")

----------------------------------------------------------------------------
(* C6 *)

\* C6: char_width returns 1 on every byte, reads no table entry, and does so
\* whatever was called before it.
C6_WidthIsOne ==
  Called("char_width") =>
    res["char_width"].ret = 1 /\ res["char_width"].reads = {}

C6_Witness == Byte = \hFF /\ Called("char_width") /\ AllCalled

----------------------------------------------------------------------------
(* C7 *)

\* C7: no call changes the table, and a query repeated on the same byte gives
\* the answer it gave before.
C7_TableNeverMutated ==
  [][ /\ table' = table
      /\ c' = c => \A f \in Accessors : Called(f) => res'[f] = res[f] ]_vars

C7_Witness ==
  /\ table = yp_encoding_iso_8859_7_table
  /\ Byte = \h41
  /\ \A f \in Accessors : Called(f)

----------------------------------------------------------------------------
(* C8 *)

\* C8: under every interleaving of the threads' steps, a finished query holds
\* exactly the value the same query yields when run alone, and the table, the
\* only shared state, is as it was initialised.
C8_ConcurrentUseSafe ==
  /\ table = yp_encoding_iso_8859_7_table
  /\ \A t \in Threads :
       pc[t] = "done" =>
         { r.ret : r \in Outcomes(fn[t], yp_encoding_iso_8859_7_table, arg[t]) }
           = { ret[t] }

C8_Witness ==
  /\ pc[1] = "done" /\ fn[1] = "isupper_char" /\ ret[1] = TRUE
  /\ pc[2] = "lookup" /\ fn[2] = "alpha_char" /\ v[2] = \hFF

----------------------------------------------------------------------------
(* C9 *)

\* C9: for every char value, negative ones included, each predicate reads the
\* one table entry at the value modulo 256, which lies in 0..255, and returns
\* true iff its flag is set there; what it returns is 0 or 1 (false or true),
\* never an error value.
C9_IndexIsUnsignedValue ==
  \A f \in Predicates :
    Called(f) =>
      /\ res[f].reads = { c % 256 }
      /\ res[f].reads \subseteq 0..255
      /\ res[f].reads \subseteq DOMAIN table
      /\ res[f].ret = Returned(f, BitAnd(table[c % 256], BitOf(f)) # 0)
      /\ res[f].ret \in (IF f = "isupper_char" THEN BOOLEAN ELSE {0, 1})

C9_Witness ==
  /\ charSigned /\ c = -63
  /\ Yes("alpha_char") /\ res["alpha_char"].reads = { \hC1 }

----------------------------------------------------------------------------
(* C10 *)

\* C10: is_uppercase(b) implies is_alphabetic(b) and is_alphanumeric(b), and
\* every table entry is one of none, alphanumeric only, alphabetic and
\* alphanumeric, or all three flags.
C10_UpperImpliesAlpha ==
  /\ Yes("isupper_char") /\ Called("alpha_char") => Yes("alpha_char")
  /\ Yes("isupper_char") /\ Called("alnum_char") => Yes("alnum_char")
  /\ \A i \in DOMAIN table :
       table[i] \in
         { 0,
           YP_ENCODING_ALPHANUMERIC_BIT,
           YP_ENCODING_ALPHABETIC_BIT + YP_ENCODING_ALPHANUMERIC_BIT,
           YP_ENCODING_ALPHABETIC_BIT + YP_ENCODING_ALPHANUMERIC_BIT
             + YP_ENCODING_UPPERCASE_BIT }

C10_Witness == Byte = \hB6 /\ Yes("isupper_char") /\ Yes("alpha_char") /\ Yes("alnum_char")

====
